---- MODULE Spec2Model ----
(***************************************************************************)
(* Model of go-fit-graph (src/main.go): main() fetches the sessions of a   *)
(* fitness provider, normalizes every bucket of every session into an      *)
(* Activity, removes duplicates, sorts by date, folds the distances into a *)
(* cumulative series and renders it.                                       *)
(*                                                                         *)
(* Units.  FpVal (meters, float64) is an integer number of millimetres, so *)
(* that 1609.344 m = 1609344, and Distance (miles, float64, two decimals)  *)
(* is an integer number of 1/pow = 1/100 mile.  The arithmetic of the      *)
(* rounding (Modf, Ceil, Floor) is done exactly on the fraction            *)
(* digit = pow * FpVal / 1609344.  Times are epoch seconds / milliseconds. *)
(***************************************************************************)
EXTENDS Integers, Sequences, FiniteSets

VARIABLES
    pc,           \* position of main()
    sessions,     \* resp.Session
    si,           \* index of the session loop (line 94), 1-based
    r,            \* r.Bucket of the current aggregate response
    bi,           \* index of the bucket loop (line 108), 1-based
    activities,   \* var activities Activities
    ai,           \* index of the cumulative loop (line 150), 1-based
    xs, ys,       \* the series
    totalDist,    \* the running total
    stdout,       \* what graph.Render has written to os.Stdout
    fetched,      \* history: activities as handed to removeDuplicates
    deduped,      \* history: activities as handed to sort.Sort
    fetchFailed   \* history: a Do() call has returned an error

vars == <<pc, sessions, si, r, bi, activities, ai, xs, ys, totalDist,
          stdout, fetched, deduped, fetchFailed>>

(***************************************************************************)
(* Bounds of the model.                                                    *)
(***************************************************************************)
MaxSessions == 2
MaxActivities == 4
MaxSortLen == 3

(***************************************************************************)
(* Program constants.                                                      *)
(***************************************************************************)
MetersPerMile == 1609344
PowExp == 2

DistanceSourceId == "derived:com.google.distance.delta:com.google.android.gms:aggregated"
SegmentSourceId == "derived:com.google.activity.segment:com.google.android.gms:aggregated"

(***************************************************************************)
(* Library arithmetic.                                                     *)
(***************************************************************************)
\* Go's integer division truncates toward zero (b > 0 here).
GoDivFloor(a, b) == a \div b
GoDiv(a, b) == IF a >= 0 THEN a \div b ELSE -((-a) \div b)

\* math.Pow(10, e)
RECURSIVE Pow10(_)
Pow10(e) == IF e = 0 THEN 1 ELSE 10 * Pow10(e - 1)

\* math.Floor and math.Ceil of the fraction num/den (den > 0).
Floor(num, den) == num \div den
Ceil(num, den) == -((-num) \div den)

\* math.Modf of num/den: the integer part (truncated toward zero) and the
\* fractional part as a numerator over den; both carry the sign of num.
ModfInt(num, den) == GoDiv(num, den)
ModfFrac(num, den) == num - ModfInt(num, den) * den

(***************************************************************************)
(* Lines 123-134: convert meters to miles and round.  The result is        *)
(* round = Distance * pow.                                                 *)
(***************************************************************************)
RoundMilesFloor(fpVal) == Floor(Pow10(PowExp) * fpVal, MetersPerMile)
RoundMiles(fpVal) ==
    LET pow == Pow10(PowExp)
        num == pow * fpVal          \* digit = num / MetersPerMile
        div == ModfFrac(num, MetersPerMile)
    IN  IF 2 * div >= MetersPerMile
        THEN Ceil(num, MetersPerMile)
        ELSE Floor(num, MetersPerMile)

(***************************************************************************)
(* Lines 119-138: the scan over datasets, points and values.  dist is the  *)
(* value of activity.Distance carried through the loops.                   *)
(***************************************************************************)
RECURSIVE ScanValues(_, _)
ScanValues(values, dist) ==
    IF values = <<>> THEN dist
    ELSE ScanValues(Tail(values), RoundMiles(Head(values)))

RECURSIVE ScanPoints(_, _)
ScanPoints(points, dist) ==
    IF points = <<>> THEN dist
    ELSE ScanPoints(Tail(points), ScanValues(Head(points), dist))

MatchesAnySource(dataset) == TRUE
Matches(dataset) == dataset.DataSourceId = DistanceSourceId

RECURSIVE ScanDatasets(_, _)
ScanDatasets(datasets, dist) ==
    IF datasets = <<>> THEN dist
    ELSE ScanDatasets(Tail(datasets),
                      IF Matches(Head(datasets))
                      THEN ScanPoints(Head(datasets).Point, dist)
                      ELSE dist)

(***************************************************************************)
(* time.Unix(sec, 0) is an instant in the Local zone; the model keeps the  *)
(* instant (Unix seconds).  The Local zone of the model has one change of  *)
(* offset (the clocks go back one hour at instant 3600), so that two       *)
(* instants one hour apart show the same wall clock.                       *)
(***************************************************************************)
ZoneOffset(sec) == IF sec < 3600 THEN 7200 ELSE 3600

\* Time.String(): the wall clock followed by the zone offset.
DateStringNoZone(sec) == <<sec + ZoneOffset(sec)>>
DateString(sec) == <<sec + ZoneOffset(sec), ZoneOffset(sec)>>

\* Time.Unix()
Unix(date) == date

(***************************************************************************)
(* Lines 109-118 and 119-138: one bucket of one session becomes an         *)
(* Activity.                                                               *)
(***************************************************************************)
Normalize(session, bucket) ==
    [ Name         |-> session.Name,
      Duration     |-> GoDiv(GoDiv(bucket.EndTimeMillis - bucket.StartTimeMillis, 1000), 60),
      Distance     |-> ScanDatasets(bucket.Dataset, 0),
      Description  |-> bucket.Session.Description,
      Date         |-> GoDiv(bucket.StartTimeMillis, 1000),
      ActivityType |-> session.ActivityType ]

(***************************************************************************)
(* Lines 40-50: removeDuplicates.                                          *)
(***************************************************************************)
RECURSIVE DedupeLoop(_, _, _)
DedupeLoop(rest, seen, dedupe) ==
    IF rest = <<>> THEN dedupe
    ELSE LET activity == Head(rest)
             key == DateString(activity.Date)
         IN  IF key \notin seen
             THEN DedupeLoop(Tail(rest), seen \cup {key}, Append(dedupe, activity))
             ELSE DedupeLoop(Tail(rest), seen, dedupe)

RECURSIVE DedupeLastLoop(_, _, _)
DedupeLastLoop(rest, seen, dedupe) ==
    IF rest = <<>> THEN dedupe
    ELSE LET activity == rest[Len(rest)]
             key == DateString(activity.Date)
         IN  IF key \notin seen
             THEN DedupeLastLoop(SubSeq(rest, 1, Len(rest) - 1), seen \cup {key},
                                 <<activity>> \o dedupe)
             ELSE DedupeLastLoop(SubSeq(rest, 1, Len(rest) - 1), seen, dedupe)

removeDuplicatesKeepLast(acts) == DedupeLastLoop(acts, {}, <<>>)
removeDuplicates(acts) == DedupeLoop(acts, {}, <<>>)

(***************************************************************************)
(* Lines 28-38 and 144: sort.Sort(activities).  sort.Sort is documented as *)
(* not stable: it returns some permutation of its input in which no        *)
(* element is Less than an earlier one; which one, when dates tie, depends *)
(* on the library version and the length of the input.                     *)
(***************************************************************************)
LessAfter(a, b) == a.Date > b.Date
Less(a, b) == a.Date < b.Date

RECURSIVE Perms(_)
Perms(S) ==
    IF S = {} THEN {<<>>}
    ELSE UNION {{<<i>> \o p : p \in Perms(S \ {i})} : i \in S}

Permute(acts, p) == [k \in 1..Len(acts) |-> acts[p[k]]]

IsOrdered(acts) ==
    \A i, j \in 1..Len(acts) : i < j => ~Less(acts[j], acts[i])

SortResults(acts) ==
    {s \in {Permute(acts, p) : p \in Perms(1..Len(acts))} : IsOrdered(s)}

(***************************************************************************)
(* What the provider can answer.  Lines 79 and 103: the session list and   *)
(* the buckets of one session.                                             *)
(***************************************************************************)
SessionOf(i) ==
    IF i % 2 = 1 THEN [Name |-> "ride", ActivityType |-> 1]
    ELSE [Name |-> "run", ActivityType |-> 8]

DistanceDataset(points) == [DataSourceId |-> DistanceSourceId, Point |-> points]
SegmentDataset(points) == [DataSourceId |-> SegmentSourceId, Point |-> points]

Bucket(start, end, datasets) ==
    [ StartTimeMillis |-> start,
      EndTimeMillis   |-> end,
      Session         |-> [Description |-> "ride"],
      Dataset         |-> datasets ]

\* Buckets of the full run: half a mile at second 100, no distance at second
\* 50, a mile in the same second 100, a mile at second 200, minus half a mile
\* one hour after second 50 (same wall clock, other offset).
BucketA == Bucket(100000, 1900000, <<SegmentDataset(<< <<7>> >>), DistanceDataset(<< <<804672>> >>)>>)
BucketB == Bucket(50000, 50000, <<SegmentDataset(<< <<7>> >>)>>)
BucketC == Bucket(100500, 1900500, <<DistanceDataset(<< <<1609344>> >>)>>)
BucketD == Bucket(200000, 3800000, <<DistanceDataset(<< <<1609344>> >>)>>)
BucketE == Bucket(3650000, 3700000, <<DistanceDataset(<< <<-804672>> >>)>>)

RunBuckets == {BucketA, BucketB, BucketC, BucketD, BucketE}

SeqsUpTo(S, n) == UNION {[1..k -> S] : k \in 0..n}

\* The answers that keep the run within MaxActivities activities.
Responses(room) == SeqsUpTo(RunBuckets, room)

(***************************************************************************)
(* main(), one action per step.                                            *)
(***************************************************************************)
Init ==
    /\ pc = "start"
    /\ sessions = <<>>
    /\ si = 1
    /\ r = <<>>
    /\ bi = 1
    /\ activities = <<>>
    /\ ai = 1
    /\ xs = <<>>
    /\ ys = <<>>
    /\ totalDist = 0
    /\ stdout = <<>>
    /\ fetched = <<>>
    /\ deduped = <<>>
    /\ fetchFailed = FALSE

Fatal == pc' = "fatal"

\* Lines 53-65: config dir, client, services.
Setup ==
    /\ pc = "start"
    /\ pc' = "list"
    /\ UNCHANGED <<sessions, si, r, bi, activities, ai, xs, ys, totalDist,
                   stdout, fetched, deduped, fetchFailed>>

SetupFail ==
    /\ pc = "start"
    /\ Fatal
    /\ UNCHANGED <<sessions, si, r, bi, activities, ai, xs, ys, totalDist,
                   stdout, fetched, deduped, fetchFailed>>

\* Lines 67-82: the session list.
ListDo ==
    /\ pc = "list"
    /\ \E n \in 0..MaxSessions : sessions' = [i \in 1..n |-> SessionOf(i)]
    /\ si' = 1
    /\ pc' = "aggregate"
    /\ UNCHANGED <<r, bi, activities, ai, xs, ys, totalDist,
                   stdout, fetched, deduped, fetchFailed>>

ListFail ==
    /\ pc = "list"
    /\ fetchFailed' = TRUE
    /\ Fatal
    /\ UNCHANGED <<sessions, si, r, bi, activities, ai, xs, ys, totalDist,
                   stdout, fetched, deduped>>

\* Lines 94-106: the aggregate of one session.
AggregateDo ==
    /\ pc = "aggregate"
    /\ si <= Len(sessions)
    /\ r' \in Responses(MaxActivities - Len(activities))
    /\ bi' = 1
    /\ pc' = "normalize"
    /\ UNCHANGED <<sessions, si, activities, ai, xs, ys, totalDist,
                   stdout, fetched, deduped, fetchFailed>>

AggregateFailSkip ==
    /\ pc = "aggregate"
    /\ si <= Len(sessions)
    /\ fetchFailed' = TRUE
    /\ si' = si + 1
    /\ UNCHANGED <<pc, sessions, r, bi, activities, ai, xs, ys, totalDist,
                   stdout, fetched, deduped>>

AggregateFail ==
    /\ pc = "aggregate"
    /\ si <= Len(sessions)
    /\ fetchFailed' = TRUE
    /\ Fatal
    /\ UNCHANGED <<sessions, si, r, bi, activities, ai, xs, ys, totalDist,
                   stdout, fetched, deduped>>

\* Lines 108-140: one bucket.
NormalizeBucket ==
    /\ pc = "normalize"
    /\ bi <= Len(r)
    /\ activities' = Append(activities, Normalize(sessions[si], r[bi]))
    /\ bi' = bi + 1
    /\ UNCHANGED <<pc, sessions, si, r, ai, xs, ys, totalDist,
                   stdout, fetched, deduped, fetchFailed>>

\* Line 108, no bucket left: next session.
BucketLoopExit ==
    /\ pc = "normalize"
    /\ bi > Len(r)
    /\ si' = si + 1
    /\ pc' = "aggregate"
    /\ UNCHANGED <<sessions, r, bi, activities, ai, xs, ys, totalDist,
                   stdout, fetched, deduped, fetchFailed>>

\* Line 94, no session left, and line 143.
Dedupe ==
    /\ pc = "aggregate"
    /\ si > Len(sessions)
    /\ fetched' = activities
    /\ activities' = removeDuplicates(activities)
    /\ pc' = "sort"
    /\ UNCHANGED <<sessions, si, r, bi, ai, xs, ys, totalDist,
                   stdout, deduped, fetchFailed>>

\* Lines 144-148.
Sort ==
    /\ pc = "sort"
    /\ deduped' = activities
    /\ activities' \in SortResults(activities)
    /\ ai' = 1
    /\ xs' = <<>>
    /\ ys' = <<>>
    /\ totalDist' = 0
    /\ pc' = "cumulate"
    /\ UNCHANGED <<sessions, si, r, bi, stdout, fetched, fetchFailed>>

\* Lines 150-156: one activity.
HasDistanceAlways(activity) == TRUE
HasDistance(activity) == activity.Distance # 0

CumulateStep ==
    /\ pc = "cumulate"
    /\ ai <= Len(activities)
    /\ LET activity == activities[ai]
       IN  IF HasDistance(activity)
           THEN /\ totalDist' = totalDist + activity.Distance
                /\ ys' = Append(ys, totalDist')
                /\ xs' = Append(xs, Unix(activity.Date))
           ELSE UNCHANGED <<totalDist, xs, ys>>
    /\ ai' = ai + 1
    /\ UNCHANGED <<pc, sessions, si, r, bi, activities,
                   stdout, fetched, deduped, fetchFailed>>

\* Line 150, no activity left.
CumulateExit ==
    /\ pc = "cumulate"
    /\ ai > Len(activities)
    /\ pc' = "render"
    /\ UNCHANGED <<sessions, si, r, bi, activities, ai, xs, ys, totalDist,
                   stdout, fetched, deduped, fetchFailed>>

\* Lines 158-205: the chart is written to os.Stdout.
Render ==
    /\ pc = "render"
    /\ stdout' = <<[XValues |-> xs, YValues |-> ys]>>
    /\ pc' = "done"
    /\ UNCHANGED <<sessions, si, r, bi, activities, ai, xs, ys, totalDist,
                   fetched, deduped, fetchFailed>>

RenderFail ==
    /\ pc = "render"
    /\ stdout' \in {<<>>, <<"partial">>}
    /\ Fatal
    /\ UNCHANGED <<sessions, si, r, bi, activities, ai, xs, ys, totalDist,
                   fetched, deduped, fetchFailed>>

Next ==
    \/ Setup
    \/ SetupFail
    \/ ListDo
    \/ ListFail
    \/ AggregateDo
    \/ AggregateFail
    \/ NormalizeBucket
    \/ BucketLoopExit
    \/ Dedupe
    \/ Sort
    \/ CumulateStep
    \/ CumulateExit
    \/ Render
    \/ RenderFail

Spec == Init /\ [][Next]_vars

(***************************************************************************)
(* The normalizer alone: one bucket drawn from a wider set of start times, *)
(* spans and dataset shapes, handed to the bucket step of main().          *)
(***************************************************************************)
RawValues == {0, 1, 8046, 8047, 201168, 804672, 1609344, 1609345, 2414016,
              -1, -8047, -201168, -1609344}

NormStarts == {0, 999, 1000, 3600000, -1, -1500}

NormSpans == {0, 999, 59999, 60000, 119999, 3600000,
              -1, -999, -1000, -59999, -60000, -60001}

NormDatasets ==
    {<<>>,
     <<SegmentDataset(<< <<1609344>> >>)>>,
     <<DistanceDataset(<<>>)>>,
     <<DistanceDataset(<< <<>> >>)>>,
     <<DistanceDataset(<< <<804672, 1609344>> >>)>>,
     <<DistanceDataset(<< <<1609344>>, <<804672>> >>)>>,
     <<DistanceDataset(<< <<1609344>>, <<>> >>)>>,
     <<DistanceDataset(<< <<804672>> >>), DistanceDataset(<< <<1609344>> >>)>>,
     <<DistanceDataset(<< <<804672>> >>), DistanceDataset(<<>>)>>,
     <<DistanceDataset(<< <<804672>> >>), SegmentDataset(<< <<1609344>> >>)>>,
     <<SegmentDataset(<< <<1609344>> >>), DistanceDataset(<< <<804672>> >>)>>,
     <<DistanceDataset(<< <<804672>>, <<0>> >>)>>}
    \cup {<<DistanceDataset(<< <<m>> >>)>> : m \in RawValues}

NormBuckets ==
    {Bucket(s, s + d, ds) : s \in NormStarts, d \in NormSpans, ds \in NormDatasets}

InitNormalize ==
    /\ pc = "normalize"
    /\ sessions = <<SessionOf(1)>>
    /\ si = 1
    /\ r \in {<<b>> : b \in NormBuckets}
    /\ bi = 1
    /\ activities = <<>>
    /\ ai = 1
    /\ xs = <<>>
    /\ ys = <<>>
    /\ totalDist = 0
    /\ stdout = <<>>
    /\ fetched = <<>>
    /\ deduped = <<>>
    /\ fetchFailed = FALSE

NextNormalize == NormalizeBucket

SpecNormalize == InitNormalize /\ [][NextNormalize]_vars

(***************************************************************************)
(* The sort alone: any sequence of activities, dates tied or not, handed   *)
(* to the sort step of main().                                             *)
(***************************************************************************)
SortActivity(name, date) ==
    [ Name |-> name, Duration |-> 30, Distance |-> 50, Description |-> "ride",
      Date |-> date, ActivityType |-> 1 ]

SortActivities == {SortActivity(n, d) : n \in {"ride", "run"}, d \in {100, 200}}

InitSort ==
    /\ pc = "sort"
    /\ sessions = <<>>
    /\ si = 1
    /\ r = <<>>
    /\ bi = 1
    /\ activities \in SeqsUpTo(SortActivities, MaxSortLen)
    /\ ai = 1
    /\ xs = <<>>
    /\ ys = <<>>
    /\ totalDist = 0
    /\ stdout = <<>>
    /\ fetched = <<>>
    /\ deduped = <<>>
    /\ fetchFailed = FALSE

NextSort == Sort

SpecSort == InitSort /\ [][NextSort]_vars

(***************************************************************************)
(* Helpers of the properties.                                              *)
(***************************************************************************)
\* The indices of acts that hold the first occurrence of their date.
FirstIndices(acts) ==
    {i \in 1..Len(acts) : \A j \in 1..(i - 1) : acts[j].Date # acts[i].Date}

\* The k-th smallest element of a set of integers.
Nth(S, k) == CHOOSE i \in S : Cardinality({j \in S : j <= i}) = k

\* The sub-sequence of acts at the indices of S, in the order of acts.
SubSeqAt(acts, S) == [k \in 1..Cardinality(S) |-> acts[Nth(S, k)]]

RECURSIVE SumDistance(_, _)
SumDistance(acts, S) ==
    IF S = {} THEN 0
    ELSE LET i == CHOOSE j \in S : TRUE
         IN  acts[i].Distance + SumDistance(acts, S \ {i})

Dates(acts) == [k \in 1..Len(acts) |-> acts[k].Date]
Distances(acts) == [k \in 1..Len(acts) |-> acts[k].Distance]

\* The activity the bucket step has just appended, and its bucket.
Normalized == pc = "normalize" /\ bi > 1 /\ bi - 1 <= Len(r)
LastActivity == activities[Len(activities)]
LastBucket == r[bi - 1]

\* The values of the datasets of the distance stream, in scan order.
RECURSIVE Concat(_)
Concat(seqs) == IF seqs = <<>> THEN <<>> ELSE Head(seqs) \o Concat(Tail(seqs))

DistanceValues(datasets) ==
    Concat([k \in 1..Len(datasets) |->
              IF datasets[k].DataSourceId = DistanceSourceId
              THEN Concat(datasets[k].Point)
              ELSE <<>>])

(***************************************************************************)
(* Properties.                                                             *)
(***************************************************************************)

\* C1: removeDuplicates returns exactly the sub-sequence of its input made of
\* the first occurrence of each distinct timestamp, in input order: every
\* timestamp of the input appears exactly once, the retained element is the
\* earliest-indexed one with that timestamp, retained elements keep their
\* relative order.
C1_DedupFirstOccurrences ==
    pc = "sort" =>
        /\ activities = SubSeqAt(fetched, FirstIndices(fetched))
        /\ \A i \in 1..Len(fetched) :
              Cardinality({k \in 1..Len(activities) :
                              activities[k].Date = fetched[i].Date}) = 1

\* Two activities of the input share a timestamp and differ in distance, two
\* instants share a wall clock, and something is retained after the dropped
\* one.
C1_Witness ==
    /\ pc = "sort"
    /\ \E i, j \in 1..Len(fetched) :
          /\ i < j
          /\ j < Len(fetched)
          /\ fetched[i].Date = fetched[j].Date
          /\ fetched[i].Distance # fetched[j].Distance
    /\ \E i, j \in 1..Len(fetched) :
          /\ fetched[i].Date # fetched[j].Date
          /\ DateStringNoZone(fetched[i].Date) = DateStringNoZone(fetched[j].Date)
    /\ Len(activities) = 3

\* C2: the emitted cumulative distances ys are non-decreasing, and strictly
\* increasing exactly at the points whose source activity has distance > 0.
C2_CumulativeNonDecreasing ==
    LET emitted == {i \in 1..(ai - 1) : activities[i].Distance # 0}
        prev(k) == IF k = 1 THEN 0 ELSE ys[k - 1]
    IN  pc \in {"cumulate", "render", "done"} /\ Len(ys) = Cardinality(emitted) =>
            \A k \in 1..Len(ys) :
                /\ k > 1 => ys[k] >= ys[k - 1]
                /\ ys[k] > prev(k) <=> activities[Nth(emitted, k)].Distance > 0

\* C3: in the cumulative loop a zero-distance activity emits no point and
\* leaves the running total alone, any other activity adds its distance to
\* the total and appends one entry to xs and one to ys; after any prefix
\* len(xs) = len(ys) = number of non-zero-distance activities processed.
C3_CumulativeFrame ==
    /\ [](/\ Len(xs) = Len(ys)
          /\ Len(xs) = Cardinality({i \in 1..(ai - 1) : activities[i].Distance # 0}))
    /\ [][pc = "cumulate" /\ ai <= Len(activities) =>
            IF activities[ai].Distance = 0
            THEN xs' = xs /\ ys' = ys /\ totalDist' = totalDist
            ELSE /\ totalDist' = totalDist + activities[ai].Distance
                 /\ xs' = Append(xs, activities[ai].Date)
                 /\ ys' = Append(ys, totalDist')]_vars

\* The loop has passed a zero-distance activity and a later non-zero one.
C3_Witness ==
    /\ pc = "cumulate"
    /\ ai = 3
    /\ activities[1].Distance = 0
    /\ activities[2].Distance # 0
    /\ Len(xs) = 1

\* C4: the series of a full run has one point per distinct timestamp whose
\* first-occurring activity has non-zero distance, in ascending timestamp
\* order, and the y of a point is the sum of the first-occurrence distances of
\* all distinct timestamps up to the point's; A(100, 0.5), B(50, 0),
\* C(100, 0.5), D(200, 1.0) yields [(100, 0.5), (200, 1.5)].
C4_EndToEnd ==
    pc \in {"render", "done"} =>
        LET first == FirstIndices(fetched)
            points == {i \in first : fetched[i].Distance # 0}
            upTo(t) == {i \in first : fetched[i].Date <= t}
        IN  /\ Len(xs) = Cardinality(points)
            /\ Len(ys) = Cardinality(points)
            /\ \A k \in 1..Len(xs) :
                  /\ \E i \in points : fetched[i].Date = xs[k]
                  /\ \A l \in 1..Len(xs) : k < l => xs[k] < xs[l]
                  /\ ys[k] = SumDistance(fetched, upTo(xs[k]))
            /\ (Dates(fetched) = <<100, 50, 100, 200>>
                    /\ Distances(fetched) = <<50, 0, 50, 100>>
                => xs = <<100, 200>> /\ ys = <<50, 150>>)

\* The run of the example has been rendered.
C4_Witness ==
    /\ pc = "done"
    /\ Dates(fetched) = <<100, 50, 100, 200>>
    /\ Distances(fetched) = <<50, 0, 50, 100>>
    /\ stdout = <<[XValues |-> <<100, 200>>, YValues |-> <<50, 150>>]>>

\* C5: on non-negative input the rounding returns the multiple of 0.01 mile
\* nearest to meters / 1609.344, the upper one when the scaled value is half
\* way, so it is within 0.005 of the exact value; 1609.344 m gives 1.0,
\* 804.672 m gives 0.5, 0 m gives 0.0.
C5_RoundingNearest ==
    Normalized =>
        \A m \in RawValues :
            m >= 0 /\ LastBucket.Dataset = <<DistanceDataset(<< <<m>> >>)>> =>
                LET d == LastActivity.Distance
                    err == 2 * (100 * m - MetersPerMile * d)
                IN  /\ -MetersPerMile <= err
                    /\ err < MetersPerMile
                    /\ (m = 1609344 => d = 100)
                    /\ (m = 804672 => d = 50)
                    /\ (m = 0 => d = 0)

\* A value exactly half way between two hundredths (0.125 mile) was rounded up.
C5_Witness ==
    /\ Normalized
    /\ LastBucket.Dataset = <<DistanceDataset(<< <<201168>> >>)>>
    /\ LastActivity.Distance = 13

\* C6: when the session list or an aggregate call fails the run stops there
\* and nothing is written to standard output, however many sessions were
\* fetched before; the render is reached only after every session's query has
\* succeeded.
C6_FetchFailureAborts ==
    /\ fetchFailed => pc = "fatal" /\ stdout = <<>>
    /\ pc \in {"sort", "cumulate", "render", "done"} \/ stdout # <<>> =>
          ~fetchFailed /\ si = Len(sessions) + 1

\* The aggregate of the second session failed after the first one had given
\* activities.
C6_Witness ==
    /\ fetchFailed
    /\ pc = "fatal"
    /\ si = 2
    /\ Len(activities) > 0
    /\ stdout = <<>>

C8_LastDistanceValue ==
    Normalized =>
        LET values == DistanceValues(LastBucket.Dataset)
        IN  /\ Len(activities) = bi - 1
            /\ LastActivity.Distance =
                  IF values = <<>> THEN 0 ELSE RoundMiles(values[Len(values)])

\* A bucket whose distance dataset is followed by a dataset of another source
\* with another value.
C8_Witness ==
    /\ Normalized
    /\ LastBucket.Dataset = <<DistanceDataset(<< <<804672>> >>),
                              SegmentDataset(<< <<1609344>> >>)>>
    /\ LastActivity.Distance = 50

\* C9 as stated: the duration is the floor of (end - start) / 1000 / 60, also
\* when the end precedes the start.
C9_DurationIsFloor ==
    Normalized =>
        LastActivity.Duration =
            ((LastBucket.EndTimeMillis - LastBucket.StartTimeMillis) \div 1000) \div 60

\* C9, amended: the duration is (end - start) / 1000 / 60 truncated toward
\* zero, which is the floor when end >= start and the ceiling when the end
\* precedes the start; the value, negative or not, is stored in the Activity
\* and the activity is appended.
C9_DurationTruncates ==
    Normalized =>
        LET span == LastBucket.EndTimeMillis - LastBucket.StartTimeMillis
            d == LastActivity.Duration
        IN  /\ Len(activities) = bi - 1
            /\ span >= 0 => 60000 * d <= span /\ span < 60000 * (d + 1)
            /\ span < 0 => 60000 * (d - 1) < span /\ span <= 60000 * d

\* A bucket whose end precedes its start by less than a minute has duration 0.
C9_Witness ==
    /\ Normalized
    /\ LastBucket.EndTimeMillis - LastBucket.StartTimeMillis = -59999
    /\ LastActivity.Duration = 0

\* C10: the xs of a run are strictly increasing: no two emitted points share
\* an x value.
C10_XsStrictlyIncreasing ==
    \A k, l \in 1..Len(xs) : k < l => xs[k] < xs[l]

\* Two points were emitted from a fetch that was not in date order and held
\* a timestamp twice.
C10_Witness ==
    /\ pc = "done"
    /\ Len(xs) >= 2
    /\ \E i, j \in 1..Len(fetched) : i < j /\ fetched[i].Date > fetched[j].Date
    /\ \E i, j \in 1..Len(fetched) : i < j /\ fetched[i].Date = fetched[j].Date

====
